---- MODULE Spec2Model ----
(***************************************************************************)
(* TinyImageNetDataset (src/datasets/tinyimagenet.py): construction of the *)
(* class catalog and the sample index from a directory tree, and the       *)
(* __len__ / __getitem__ accessors.                                        *)
(*                                                                         *)
(* Strings are sequences of one-character strings, so that str.strip,      *)
(* str.split('\t') and the code-point order used by sorted() are computed  *)
(* rather than assumed.  A Python dict is a sequence of <<key, value>>     *)
(* pairs in insertion order.                                               *)
(***************************************************************************)
EXTENDS Integers, Sequences, FiniteSets, TLC

VARIABLES
    fs,             \* the directory tree under root_dir (read only)
    split,          \* self.split
    use_words,      \* self.use_words
    transform,      \* self.transform
    classes,        \* self.classes
    class_to_idx,   \* self.class_to_idx (dict)
    idx_to_class,   \* self.idx_to_class
    img_paths,      \* self.img_paths
    labels,         \* self.labels
    pc,             \* position in __init__, then "ready" or "failed"
    err,            \* the exception __init__ raised, "none" if none
    scanned,        \* directories os.listdir has listed so far
    result,         \* outcome of the most recent __len__ / __getitem__ call
    opens,          \* files opened by the most recent __getitem__ call
    openHandles,    \* handles opened by that call and still open at its end
    transformCalls  \* images passed to self.transform by that call

vars == <<fs, split, use_words, transform, classes, class_to_idx, idx_to_class,
          img_paths, labels, pc, err, scanned, result, opens, openHandles,
          transformCalls>>

obj == <<classes, class_to_idx, idx_to_class, img_paths, labels>>
args == <<fs, split, use_words, transform>>
call == <<result, opens, openHandles, transformCalls>>

(***************************************************************************)
(* Bounds of the explored inputs.                                          *)
(***************************************************************************)
MaxWnidLines == 3
MaxAnnLines == 2
MaxEntries == 2

(***************************************************************************)
(* Python strings.                                                         *)
(***************************************************************************)
TAB == "\t"
SP == " "
Whitespace == {SP, TAB}

\* ord(c) for the characters that occur
Ord(c) ==
    CASE c = TAB -> 9
      [] c = SP -> 32
      [] c = "a" -> 97
      [] c = "b" -> 98
      [] c = "c" -> 99
      [] c = "s" -> 115
      [] c = "x" -> 120
      [] c = "y" -> 121
      [] c = "z" -> 122
      [] OTHER -> 0

\* s < t for Python str: code-point lexicographic, a proper prefix is smaller
RECURSIVE StrLess(_, _)
StrLess(s, t) ==
    IF t = <<>> THEN FALSE
    ELSE IF s = <<>> THEN TRUE
    ELSE IF Ord(Head(s)) < Ord(Head(t)) THEN TRUE
    ELSE IF Ord(Head(s)) > Ord(Head(t)) THEN FALSE
    ELSE StrLess(Tail(s), Tail(t))

RECURSIVE LStrip(_)
LStrip(s) ==
    IF s # <<>> /\ Head(s) \in Whitespace THEN LStrip(Tail(s)) ELSE s

RECURSIVE RStrip(_)
RStrip(s) ==
    IF s # <<>> /\ s[Len(s)] \in Whitespace
    THEN RStrip(SubSeq(s, 1, Len(s) - 1)) ELSE s

\* str.strip()
Strip(s) == RStrip(LStrip(s))

\* s.split('\t'): the fields between tabs, empty fields kept
RECURSIVE SplitTab(_)
SplitTab(s) ==
    IF s = <<>> THEN << <<>> >>
    ELSE LET rest == SplitTab(Tail(s)) IN
         IF Head(s) = TAB THEN << <<>> >> \o rest
         ELSE << <<Head(s)>> \o Head(rest) >> \o Tail(rest)

(***************************************************************************)
(* Python list and dict.                                                   *)
(***************************************************************************)
\* insertion of x into a sorted list, after the elements not greater than it
RECURSIVE InsertSorted(_, _)
InsertSorted(x, s) ==
    IF s = <<>> THEN <<x>>
    ELSE IF StrLess(x, Head(s)) THEN <<x>> \o s
    ELSE <<Head(s)>> \o InsertSorted(x, Tail(s))

\* sorted(s) for a list of str (stable)
RECURSIVE Sorted(_)
Sorted(s) ==
    IF s = <<>> THEN <<>>
    ELSE InsertSorted(s[Len(s)], Sorted(SubSeq(s, 1, Len(s) - 1)))

DictHas(d, k) == \E i \in 1..Len(d) : d[i][1] = k

DictGet(d, k) == d[CHOOSE i \in 1..Len(d) : d[i][1] = k][2]

\* d[k] = v: a new key is appended, an existing key keeps its position
DictSet(d, k, v) ==
    IF DictHas(d, k)
    THEN [i \in 1..Len(d) |-> IF d[i][1] = k THEN <<k, v>> ELSE d[i]]
    ELSE Append(d, <<k, v>>)

\* indexing that rejects every negative index
PyIndexStrict(n, idx) ==
    IF 0 <= idx /\ idx < n THEN idx + 1 ELSE 0

\* seq[idx] for a Python list of length n: the 1-based position read, or 0 for
\* IndexError; a negative idx counts from the end
PyIndex(n, idx) ==
    IF 0 <= idx /\ idx < n THEN idx + 1
    ELSE IF -n <= idx /\ idx < 0 THEN n + idx + 1
    ELSE 0

(***************************************************************************)
(* The directory tree.  A text file is [exists, lines]; a directory is     *)
(* [kind, entries] with kind "absent", "dir" or "file" (a regular file in  *)
(* the directory's place) and entries in the order os.listdir returns.     *)
(***************************************************************************)
AbsentDir == [kind |-> "absent", entries |-> <<>>]

\* os.path.join(root, part, wnid, 'images', fname)
Path(part, wnid, fname) == [part |-> part, wnid |-> wnid, fname |-> fname]

NoPath == Path("none", <<>>, <<>>)

\* <root>/train/<wnid>/images
TrainDir(wnid) ==
    IF wnid \in DOMAIN fs.train THEN fs.train[wnid] ELSE AbsentDir

\* the entries of a listing for which os.path.isfile holds, in listing order
RegularFiles(entries) == SelectSeq(entries, LAMBDA e : e.isfile)

(***************************************************************************)
(* __init__, lines 38-46: the class catalog.                               *)
(***************************************************************************)
\* [line.strip() for line in f if line.strip()]
RECURSIVE ReadWnids(_)
ReadWnids(lines) ==
    IF lines = <<>> THEN <<>>
    ELSE IF Strip(Head(lines)) # <<>>
         THEN <<Strip(Head(lines))>> \o ReadWnids(Tail(lines))
         ELSE ReadWnids(Tail(lines))

\* self.classes = sorted(wnids)
Classes(lines) == Sorted(ReadWnids(lines))

\* {wnid: idx for idx, wnid in enumerate(self.classes)}, the first n entries
RECURSIVE EnumerateDict(_, _)
EnumerateDict(cs, n) ==
    IF n = 0 THEN <<>>
    ELSE DictSet(EnumerateDict(cs, n - 1), cs[n], n - 1)

ClassToIdx(cs) == EnumerateDict(cs, Len(cs))

(***************************************************************************)
(* Tab-separated files: words.txt (lines 53-58) and val_annotations.txt    *)
(* (lines 97-103).  Both keep the first two fields of every line that has  *)
(* at least two, a later line replacing an earlier one for the same key.   *)
(***************************************************************************)
RECURSIVE ParseTabFile(_, _)
ParseTabFile(lines, n) ==
    IF n = 0 THEN <<>>
    ELSE LET d == ParseTabFile(lines, n - 1)
             parts == SplitTab(Strip(lines[n]))
         IN  IF Len(parts) >= 2 THEN DictSet(d, parts[1], parts[2]) ELSE d

\* img_to_wnid of _load_val_data
ImgToWnid(lines) == ParseTabFile(lines, Len(lines))

\* self.idx_to_class, lines 49-64
IdxToClass(cs) ==
    IF use_words /\ fs.words.exists
    THEN LET names == ParseTabFile(fs.words.lines, Len(fs.words.lines))
         IN  [i \in 1..Len(cs) |->
                IF DictHas(names, cs[i]) THEN DictGet(names, cs[i]) ELSE cs[i]]
    ELSE cs

(***************************************************************************)
(* The three index builders.  Each yields the samples it appends, as a     *)
(* sequence of <<path, label>>.                                            *)
(***************************************************************************)
\* a class scan that takes every directory entry, not only regular files
ClassSamplesAllEntries(wnid, label) ==
    LET files == TrainDir(wnid).entries
    IN  [i \in 1..Len(files) |-> <<Path("train", wnid, files[i].name), label>>]

\* lines 84-88: the regular files of one class directory, all with one label
ClassSamples(wnid, label) ==
    LET files == RegularFiles(TrainDir(wnid).entries)
    IN  [i \in 1..Len(files) |-> <<Path("train", wnid, files[i].name), label>>]

\* lines 80-88 over the first n items of class_to_idx
RECURSIVE TrainSamples(_, _)
TrainSamples(items, n) ==
    IF n = 0 THEN <<>>
    ELSE TrainSamples(items, n - 1) \o
         (IF TrainDir(items[n][1]).kind # "dir" THEN <<>>
          ELSE ClassSamples(items[n][1], items[n][2]))

\* the train directories os.listdir is called on
TrainScanned(items) ==
    {Path("train", items[i][1], <<>>) :
        i \in {j \in 1..Len(items) : TrainDir(items[j][1]).kind = "dir"}}

\* a val scan that does not test os.path.isfile
RECURSIVE ValSamplesAnyEntry(_, _, _, _)
ValSamplesAnyEntry(entries, n, img_to_wnid, c2i) ==
    IF n = 0 THEN <<>>
    ELSE LET e == entries[n]
             keep == /\ DictHas(img_to_wnid, e.name)
                     /\ DictHas(c2i, DictGet(img_to_wnid, e.name))
         IN  ValSamplesAnyEntry(entries, n - 1, img_to_wnid, c2i) \o
             (IF keep
              THEN << <<Path("val", <<>>, e.name),
                        DictGet(c2i, DictGet(img_to_wnid, e.name))>> >>
              ELSE <<>>)

\* lines 105-112 over the first n entries of the listing
RECURSIVE ValSamples(_, _, _, _)
ValSamples(entries, n, img_to_wnid, c2i) ==
    IF n = 0 THEN <<>>
    ELSE LET e == entries[n]
             keep == /\ e.isfile
                     /\ DictHas(img_to_wnid, e.name)
                     /\ DictHas(c2i, DictGet(img_to_wnid, e.name))
         IN  ValSamples(entries, n - 1, img_to_wnid, c2i) \o
             (IF keep
              THEN << <<Path("val", <<>>, e.name),
                        DictGet(c2i, DictGet(img_to_wnid, e.name))>> >>
              ELSE <<>>)

\* a test scan that labels its samples 0
TestSamplesLabelZero(entries) ==
    LET files == RegularFiles(entries)
    IN  [i \in 1..Len(files) |-> <<Path("test", <<>>, files[i].name), 0>>]

\* lines 118-122
TestSamples(entries) ==
    LET files == RegularFiles(entries)
    IN  [i \in 1..Len(files) |-> <<Path("test", <<>>, files[i].name), -1>>]

PathsOf(samples) == [i \in 1..Len(samples) |-> samples[i][1]]
LabelsOf(samples) == [i \in 1..Len(samples) |-> samples[i][2]]

(***************************************************************************)
(* Images.  Image.open(path).convert('RGB') yields Decoded(path); a        *)
(* transform is "None" (not supplied), "wrap" (returns a new image built   *)
(* from its argument), "marker" (returns a fixed marker) or "falsy" (a     *)
(* callable object like "wrap" whose truth value is False, e.g. one that   *)
(* defines __len__ and is empty).                                          *)
(***************************************************************************)
Transforms == {"None", "wrap", "marker", "falsy"}

NoImage == [mode |-> "none", src |-> NoPath, by |-> "none"]

Decoded(path) == [mode |-> "RGB", src |-> path, by |-> "none"]

\* transform(image)
Apply(t, image) ==
    IF t = "marker" THEN [mode |-> "marker", src |-> NoPath, by |-> "marker"]
    ELSE [image EXCEPT !.by = t]

\* bool(self.transform), the test of line 135
Truthy(t) == t \notin {"None", "falsy"}

NoResult ==
    [kind |-> "none", idx |-> 0, n |-> 0, image |-> NoImage, label |-> 0,
     path |-> NoPath]

(***************************************************************************)
(* __init__ in program order: catalog, names, index.                       *)
(***************************************************************************)
Raise(e) ==
    /\ pc' = "failed"
    /\ err' = e

\* lines 33-46
InitCatalog ==
    /\ pc = "new"
    /\ IF ~fs.wnids.exists
       THEN /\ Raise("FileNotFoundError")
            /\ UNCHANGED <<classes, class_to_idx>>
       ELSE /\ classes' = Classes(fs.wnids.lines)
            /\ class_to_idx' = ClassToIdx(classes')
            /\ pc' = "words"
            /\ err' = err
    /\ UNCHANGED <<args, idx_to_class, img_paths, labels, scanned, call>>

\* lines 48-64
InitWords ==
    /\ pc = "words"
    /\ idx_to_class' = IdxToClass(classes)
    /\ pc' = "index"
    /\ UNCHANGED <<args, classes, class_to_idx, img_paths, labels, err,
                   scanned, call>>

\* lines 66-76
InitIndex ==
    /\ pc = "index"
    /\ img_paths' = <<>>
    /\ labels' = <<>>
    /\ IF split \in {"train", "val", "test"}
       THEN pc' = split /\ err' = err
       ELSE Raise("ValueError")
    /\ UNCHANGED <<args, classes, class_to_idx, idx_to_class, scanned, call>>

Extend(samples, dirs) ==
    /\ img_paths' = img_paths \o PathsOf(samples)
    /\ labels' = labels \o LabelsOf(samples)
    /\ scanned' = scanned \cup dirs
    /\ pc' = "ready"
    /\ err' = err

\* a train loader that raises at the first missing class directory, after
\* the classes before it were indexed
LoadTrainStrict ==
    /\ pc = "train"
    /\ LET missing == {i \in 1..Len(class_to_idx) :
                          TrainDir(class_to_idx[i][1]).kind # "dir"}
           first == CHOOSE i \in missing : \A j \in missing : i <= j
       IN  IF missing = {}
           THEN Extend(TrainSamples(class_to_idx, Len(class_to_idx)),
                       TrainScanned(class_to_idx))
           ELSE /\ img_paths' = img_paths \o PathsOf(TrainSamples(class_to_idx, first - 1))
                /\ labels' = labels \o LabelsOf(TrainSamples(class_to_idx, first - 1))
                /\ scanned' = scanned \cup TrainScanned(SubSeq(class_to_idx, 1, first - 1))
                /\ Raise("FileNotFoundError")
    /\ UNCHANGED <<args, classes, class_to_idx, idx_to_class, call>>

\* _load_train_data, lines 78-88
LoadTrain ==
    /\ pc = "train"
    /\ Extend(TrainSamples(class_to_idx, Len(class_to_idx)),
              TrainScanned(class_to_idx))
    /\ UNCHANGED <<args, classes, class_to_idx, idx_to_class, call>>

\* _load_val_data, lines 90-112; os.listdir raises for a path that is absent
\* (FileNotFoundError) or not a directory (NotADirectoryError)
LoadVal ==
    /\ pc = "val"
    /\ IF ~fs.valAnn.exists
       THEN Raise("FileNotFoundError") /\ UNCHANGED <<img_paths, labels, scanned>>
       ELSE IF fs.valImages.kind = "absent"
       THEN Raise("FileNotFoundError") /\ UNCHANGED <<img_paths, labels, scanned>>
       ELSE IF fs.valImages.kind = "file"
       THEN Raise("NotADirectoryError") /\ UNCHANGED <<img_paths, labels, scanned>>
       ELSE Extend(ValSamples(fs.valImages.entries, Len(fs.valImages.entries),
                              ImgToWnid(fs.valAnn.lines), class_to_idx),
                   {Path("val", <<>>, <<>>)})
    /\ UNCHANGED <<args, classes, class_to_idx, idx_to_class, call>>

\* a test loader without the os.path.isdir test, a missing directory read as
\* an empty one
LoadTestNoDirCheck ==
    /\ pc = "test"
    /\ Extend(TestSamples(fs.testImages.entries), {Path("test", <<>>, <<>>)})
    /\ UNCHANGED <<args, classes, class_to_idx, idx_to_class, call>>

\* _load_test_data, lines 114-122
LoadTest ==
    /\ pc = "test"
    /\ IF fs.testImages.kind # "dir"
       THEN Raise("FileNotFoundError") /\ UNCHANGED <<img_paths, labels, scanned>>
       ELSE Extend(TestSamples(fs.testImages.entries), {Path("test", <<>>, <<>>)})
    /\ UNCHANGED <<args, classes, class_to_idx, idx_to_class, call>>

(***************************************************************************)
(* The accessors.                                                          *)
(***************************************************************************)
\* __len__, lines 124-125
Length ==
    /\ pc = "ready"
    /\ result' = [NoResult EXCEPT !.kind = "len", !.n = Len(img_paths)]
    /\ opens' = 0
    /\ openHandles' = {}
    /\ transformCalls' = <<>>
    /\ UNCHANGED <<args, obj, pc, err, scanned>>

DecodeOutcomes == {"ok", "open_error", "convert_error"}

\* the value __getitem__ returns or the exception it raises, lines 127-137
GetResult(idx, outcome) ==
    LET pos == PyIndex(Len(img_paths), idx) IN
    IF pos = 0 THEN [NoResult EXCEPT !.kind = "IndexError", !.idx = idx]
    ELSE IF outcome # "ok"
    THEN [NoResult EXCEPT !.kind = "RuntimeError", !.idx = idx,
                          !.path = img_paths[pos]]
    ELSE [NoResult EXCEPT
            !.kind = "item", !.idx = idx,
            !.image = IF Truthy(transform)
                      THEN Apply(transform, Decoded(img_paths[pos]))
                      ELSE Decoded(img_paths[pos]),
            !.label = labels[PyIndex(Len(labels), idx)]]

\* a __getitem__ that removes the sample it reads from the index
GetConsuming(idx, outcome, released) ==
    /\ pc = "ready"
    /\ result' = GetResult(idx, outcome)
    /\ LET pos == PyIndex(Len(img_paths), idx)
           rest(q) == [i \in 1..(Len(q) - 1) |-> IF i < pos THEN q[i] ELSE q[i + 1]]
       IN
       /\ opens' = IF pos = 0 THEN 0 ELSE 1
       /\ openHandles' = IF pos # 0 /\ outcome # "open_error" /\ ~released
                         THEN {img_paths[pos]} ELSE {}
       /\ transformCalls' = IF pos # 0 /\ outcome = "ok" /\ Truthy(transform)
                            THEN <<Decoded(img_paths[pos])>> ELSE <<>>
       /\ img_paths' = IF pos = 0 THEN img_paths ELSE rest(img_paths)
       /\ labels' = IF pos = 0 THEN labels ELSE rest(labels)
    /\ UNCHANGED <<args, classes, class_to_idx, idx_to_class, pc, err, scanned>>

\* __getitem__, lines 127-137.  Line 131 opens the file and never closes it:
\* whether the handle is released when the call ends is left to the imaging
\* library and the garbage collector (released), except that nothing stays
\* open when the open itself fails.
Get(idx, outcome, released) ==
    /\ pc = "ready"
    /\ result' = GetResult(idx, outcome)
    /\ LET pos == PyIndex(Len(img_paths), idx) IN
       /\ opens' = IF pos = 0 THEN 0 ELSE 1
       /\ openHandles' = IF pos # 0 /\ outcome # "open_error" /\ ~released
                         THEN {img_paths[pos]} ELSE {}
       /\ transformCalls' = IF pos # 0 /\ outcome = "ok" /\ Truthy(transform)
                            THEN <<Decoded(img_paths[pos])>> ELSE <<>>
    /\ UNCHANGED <<args, obj, pc, err, scanned>>

GetItem ==
    \E idx \in -(Len(img_paths) + 1) .. (Len(img_paths) + 1) :
        \E outcome \in DecodeOutcomes : \E released \in BOOLEAN :
            Get(idx, outcome, released)

Next ==
    \/ InitCatalog
    \/ InitWords
    \/ InitIndex
    \/ LoadTrain
    \/ LoadVal
    \/ LoadTest
    \/ Length
    \/ GetItem

(***************************************************************************)
(* Initial states: the arguments and the directory tree a caller can       *)
(* supply, before __init__ has run.                                        *)
(***************************************************************************)
SeqsUpTo(S, n) == UNION {[1..k -> S] : k \in 0..n}

A == <<"a">>
B == <<"b">>
C == <<"c">>
X == <<"x">>
Y == <<"y">>

File(lines) == [exists |-> TRUE, lines |-> lines]
NoFile == [exists |-> FALSE, lines |-> <<>>]
Dir(entries) == [kind |-> "dir", entries |-> entries]
NotADir == [kind |-> "file", entries |-> <<>>]
Entry(name, isfile) == [name |-> name, isfile |-> isfile]

\* lines of wnids.txt: blank, padded, and identifiers one of which is a
\* prefix of another
WnidLineSet ==
    {<<>>, <<SP>>, A, B, <<"a", "b">>, <<SP, "a", SP>>}

\* lines of val_annotations.txt
AnnLineSet ==
    {<<"x", TAB, "a">>,                  \* x -> a
     <<"x", TAB, "b", TAB, "z">>,        \* x -> b, a third field
     <<SP, "y", TAB, "a", SP>>,          \* y -> a, padded
     <<"y", TAB, "c">>,                  \* y -> c, not a class
     <<"s", TAB, "a">>,                  \* names the subdirectory
     <<"x", TAB>>}                       \* one field once stripped

\* lines of words.txt
WordLineSet == {<<"a", TAB, "z">>, <<"b">>}

\* directory entries: two regular files and a subdirectory
EntrySet == {Entry(X, TRUE), Entry(Y, TRUE), Entry(<<"s">>, FALSE)}

Listings ==
    {l \in SeqsUpTo(EntrySet, MaxEntries) :
        \A i, j \in 1..Len(l) : i # j => l[i] # l[j]}

DirStates == {AbsentDir, NotADir} \cup {Dir(l) : l \in Listings}

\* a complete small tree
FS0 ==
    [wnids |-> File(<<B, A>>),
     words |-> File(<<<<"a", TAB, "z">>>>),
     train |-> (A :> Dir(<<Entry(X, TRUE)>>) @@ B :> Dir(<<Entry(Y, TRUE)>>)),
     valAnn |-> File(<<<<"x", TAB, "a">>>>),
     valImages |-> Dir(<<Entry(X, TRUE)>>),
     testImages |-> Dir(<<Entry(X, TRUE), Entry(Y, TRUE)>>)]

InitObject ==
    /\ classes = <<>>
    /\ class_to_idx = <<>>
    /\ idx_to_class = <<>>
    /\ img_paths = <<>>
    /\ labels = <<>>
    /\ pc = "new"
    /\ err = "none"
    /\ scanned = {}
    /\ result = NoResult
    /\ opens = 0
    /\ openHandles = {}
    /\ transformCalls = <<>>

\* any wnids.txt
InitWnids ==
    /\ fs \in {[FS0 EXCEPT !.wnids = File(w)] :
                 w \in SeqsUpTo(WnidLineSet, MaxWnidLines)}
    /\ split = "train"
    /\ use_words = FALSE
    /\ transform = "None"

\* any train tree
InitTrainTree ==
    /\ fs \in {[FS0 EXCEPT !.wnids = File(w), !.train = t] :
                 w \in SeqsUpTo({A, B}, 2), t \in [{A, B} -> DirStates]}
    /\ split = "train"
    /\ use_words = FALSE
    /\ transform = "None"

\* any val tree
InitValTree ==
    /\ fs \in {[FS0 EXCEPT !.wnids = File(w), !.valAnn = a, !.valImages = d] :
                 w \in {<<B, A>>},
                 a \in {NoFile} \cup {File(l) : l \in SeqsUpTo(AnnLineSet, MaxAnnLines)},
                 d \in DirStates}
    /\ split = "val"
    /\ use_words = FALSE
    /\ transform = "None"

\* any test tree
InitTestTree ==
    /\ fs \in {[FS0 EXCEPT !.wnids = File(w), !.testImages = d] :
                 w \in {<<>>, <<B, A>>}, d \in DirStates}
    /\ split = "test"
    /\ use_words = FALSE
    /\ transform = "None"

\* any arguments
InitArgs ==
    /\ fs \in {[FS0 EXCEPT !.wnids = w, !.words = n] :
                 w \in {NoFile, FS0.wnids},
                 n \in {NoFile} \cup {File(l) : l \in SeqsUpTo(WordLineSet, 2)}}
    /\ split \in {"train", "val", "test", "other"}
    /\ use_words \in BOOLEAN
    /\ transform \in Transforms

Init ==
    /\ InitObject
    /\ \/ InitWnids
       \/ InitTrainTree
       \/ InitValTree
       \/ InitTestTree
       \/ InitArgs

Spec == Init /\ [][Next]_vars

TypeOK ==
    /\ pc \in {"new", "words", "index", "train", "val", "test", "ready", "failed"}
    /\ err \in {"none", "FileNotFoundError", "ValueError", "NotADirectoryError"}
    /\ Len(img_paths) = Len(labels)

(***************************************************************************)
(* Properties.                                                             *)
(***************************************************************************)
GetKinds == {"item", "RuntimeError", "IndexError"}
Constructed == pc = "ready"
CatalogBuilt == pc # "new" /\ fs.wnids.exists
Range(q) == {q[i] : i \in 1..Len(q)}
MaxOf(S) == CHOOSE x \in S : \A y \in S : y <= x

C2_DenseSortedCatalog ==
    CatalogBuilt =>
        /\ Len(classes) = Cardinality({n \in 1..Len(fs.wnids.lines) :
                                          Strip(fs.wnids.lines[n]) # <<>>})
        /\ \A n \in 1..Len(fs.wnids.lines) :
              Strip(fs.wnids.lines[n]) # <<>> =>
                  Strip(fs.wnids.lines[n]) \in Range(classes)
        /\ \A i, j \in 1..Len(classes) : i < j => ~StrLess(classes[j], classes[i])
        /\ \A i \in 1..Len(classes) :
              /\ DictHas(class_to_idx, classes[i])
              /\ DictGet(class_to_idx, classes[i]) = i - 1

\* val_annotations.txt read as the claim reads it: the lines with at least
\* two tab-separated fields, the last such line for a filename deciding
AnnFields(n) == SplitTab(Strip(fs.valAnn.lines[n]))
AnnLinesFor(fname) ==
    {n \in 1..Len(fs.valAnn.lines) :
        Len(AnnFields(n)) >= 2 /\ AnnFields(n)[1] = fname}
MappedId(fname) == AnnFields(MaxOf(AnnLinesFor(fname)))[2]
ValIndexed(e) ==
    /\ e.isfile
    /\ AnnLinesFor(e.name) # {}
    /\ MappedId(e.name) \in Range(classes)

\* C3: in the val partition the index holds exactly one sample per regular
\* file of val/images/ that has an annotation entry with a catalog
\* identifier, labelled with that identifier's index; every other entry is
\* left out without error.
C3_ValIndexExact ==
    (Constructed /\ split = "val") =>
        /\ \A i \in 1..Len(img_paths) :
              /\ img_paths[i].part = "val"
              /\ \E e \in Range(fs.valImages.entries) :
                    /\ e.name = img_paths[i].fname
                    /\ ValIndexed(e)
                    /\ labels[i] = DictGet(class_to_idx, MappedId(e.name))
                    /\ classes[labels[i] + 1] = MappedId(e.name)
        /\ \A e \in Range(fs.valImages.entries) :
              Cardinality({i \in 1..Len(img_paths) :
                              img_paths[i] = Path("val", <<>>, e.name)})
                  = IF ValIndexed(e) THEN 1 ELSE 0
        /\ err = "none"

C3_Witness ==
    /\ Constructed
    /\ split = "val"
    /\ Len(img_paths) = 1
    /\ \E e \in Range(fs.valImages.entries) : e.isfile /\ AnnLinesFor(e.name) = {}
    /\ \E n \in 1..Len(fs.valAnn.lines) : Len(AnnFields(n)) < 2

ValInputMissing == fs.valImages.kind = "absent" \/ ~fs.valAnn.exists

\* C4: with wnids.txt present, constructing val fails with
\* FileNotFoundError when val/images/ or val_annotations.txt is absent,
\* constructing test fails with it when test/images/ is absent, and
\* constructing train never fails.
C4_MissingInputsFail ==
    fs.wnids.exists =>
        /\ (split = "val" /\ ValInputMissing) =>
              /\ ~Constructed
              /\ pc = "failed" => err = "FileNotFoundError"
        /\ (split = "test" /\ fs.testImages.kind = "absent") =>
              /\ ~Constructed
              /\ pc = "failed" => err = "FileNotFoundError"
        /\ split = "train" => pc # "failed"

C4_Witness ==
    /\ fs.wnids.exists
    /\ pc = "failed"
    /\ err = "FileNotFoundError"
    /\ split = "val"
    /\ fs.valAnn.exists
    /\ fs.valImages.kind = "absent"

\* C5 as stated: whenever the partition selector is not one of
\* train/val/test, the failure of construction is ValueError.
C5_InvalidSplitRaisesValueError ==
    (pc = "failed" /\ split \notin {"train", "val", "test"}) => err = "ValueError"

\* C5 amended: construction fails with an empty index and nothing scanned;
\* with wnids.txt absent it raises FileNotFoundError for every selector,
\* and an invalid selector raises ValueError when wnids.txt is present.
C5_FailsBeforeIndexing ==
    /\ pc = "failed" =>
          /\ img_paths = <<>>
          /\ labels = <<>>
          /\ scanned = {}
          /\ err # "none"
    /\ ~fs.wnids.exists =>
          /\ pc \in {"new", "failed"}
          /\ pc = "failed" => err = "FileNotFoundError"
    /\ (fs.wnids.exists /\ split \notin {"train", "val", "test"}) =>
          /\ pc \notin {"train", "val", "test", "ready"}
          /\ pc = "failed" => err = "ValueError"

C5_Witness ==
    /\ pc = "failed"
    /\ err = "ValueError"
    /\ classes # <<>>

\* C6: after construction no length() or get(index) call, failing or not,
\* changes the catalog, the mapping, paths or labels; paths and labels
\* have equal length and length() returns that length.
C6_AccessorsReadOnly ==
    /\ [][Constructed => UNCHANGED <<classes, class_to_idx, img_paths, labels>>]_vars
    /\ [](Constructed => Len(img_paths) = Len(labels))
    /\ []((Constructed /\ result.kind = "len") => result.n = Len(img_paths))

C6_Witness ==
    /\ Constructed
    /\ result.kind = "RuntimeError"
    /\ Len(img_paths) >= 2

\* the regular files of the class directories that exist, by identifier
TrainFiles ==
    UNION {{<<w, e.name>> : e \in {f \in Range(TrainDir(w).entries) : f.isfile}} :
              w \in {c \in Range(classes) : TrainDir(c).kind = "dir"}}

\* C7: in the train partition every regular file of every existing class
\* directory is exactly one sample labelled with its class's index, samples
\* come in catalog order of their class, a missing class directory adds
\* nothing and raises nothing, and length() is the number of those files.
C7_TrainIndexExact ==
    (Constructed /\ split = "train") =>
        /\ \A i \in 1..Len(img_paths) :
              /\ img_paths[i].part = "train"
              /\ <<img_paths[i].wnid, img_paths[i].fname>> \in TrainFiles
              /\ labels[i] = DictGet(class_to_idx, img_paths[i].wnid)
              /\ classes[labels[i] + 1] = img_paths[i].wnid
        /\ \A f \in TrainFiles :
              Cardinality({i \in 1..Len(img_paths) :
                              img_paths[i] = Path("train", f[1], f[2])}) = 1
        /\ \A i, j \in 1..Len(img_paths) :
              i < j => ~StrLess(img_paths[j].wnid, img_paths[i].wnid)
        /\ Len(img_paths) = Cardinality(TrainFiles)
        /\ err = "none"

C7_Witness ==
    /\ Constructed
    /\ split = "train"
    /\ Len(img_paths) = 1
    /\ Len(classes) = 2
    /\ \E c \in Range(classes) : TrainDir(c).kind = "absent"
    /\ \E c \in Range(classes) : \E e \in Range(TrainDir(c).entries) : ~e.isfile

\* C8: in the test partition every sample is labelled -1 whatever the
\* catalog, and length() is the number of regular files directly under
\* test/images/.
C8_TestIndexUnlabelled ==
    (Constructed /\ split = "test") =>
        /\ \A i \in 1..Len(labels) : labels[i] = -1
        /\ Len(img_paths) =
              Cardinality({e \in Range(fs.testImages.entries) : e.isfile})
        /\ \A e \in Range(fs.testImages.entries) :
              Cardinality({i \in 1..Len(img_paths) :
                              img_paths[i] = Path("test", <<>>, e.name)})
                  = IF e.isfile THEN 1 ELSE 0

C8_Witness ==
    /\ Constructed
    /\ split = "test"
    /\ Len(img_paths) = 1
    /\ classes # <<>>
    /\ \E e \in Range(fs.testImages.entries) : ~e.isfile

\* C9 as stated: on a valid index, for every supplied transform, a
\* successful get returns (transform(decoded image), labels[index]) with the
\* transform called exactly once on the decoded image; with none supplied it
\* returns the decoded image; a failed decode calls no transform.
C9_TransformAlwaysApplied ==
    (Constructed /\ result.kind \in GetKinds
        /\ result.idx \in 0..(Len(img_paths) - 1)) =>
        LET at == PyIndex(Len(img_paths), result.idx) IN
        /\ (result.kind = "item" /\ transform # "None") =>
              /\ result.image = Apply(transform, Decoded(img_paths[at]))
              /\ transformCalls = <<Decoded(img_paths[at])>>
              /\ result.label = labels[at]
        /\ (result.kind = "item" /\ transform = "None") =>
              /\ result.image = Decoded(img_paths[at])
              /\ transformCalls = <<>>
              /\ result.label = labels[at]
        /\ result.kind # "item" => transformCalls = <<>>

\* C10 as stated: every get on a valid index opens the file exactly once
\* and no handle it opened is still open when the call returns or raises.
C10_HandleReleased ==
    (Constructed /\ result.kind \in GetKinds
        /\ result.idx \in 0..(Len(img_paths) - 1)) =>
        /\ opens = 1
        /\ openHandles = {}

====
